---- MODULE Spec2Model ----
(***************************************************************************)
(* A model of arestor's schema-driven record model (common/model.py) and   *)
(* of its Redis connector (common/connector.py).                           *)
(*                                                                         *)
(* Python values are encoded as strings: None is "None", the ints 0 and 1  *)
(* are "#0" and "#1", and every other string is a Python str.  A Python    *)
(* dict is a function whose DOMAIN is the set of keys it holds.            *)
(***************************************************************************)
EXTENDS Integers, Sequences, FiniteSets, TLC

VARIABLES
    cls,             \* class of the record under observation ("none": no record)
    data,            \* BaseModel._data
    changes,         \* BaseModel._changes
    provision_done,  \* BaseModel._provision_done
    uuid_count,      \* number of uuid.uuid1() values handed out so far
    connection,      \* _Connector._connection ("None" or "StrictRedis")
    reachable,       \* whether the Redis server answers a ping
    retry_count,     \* CONFIG.retry_count
    models,          \* the Redis sets "models.<model>": model name -> set of members
    schema,          \* the Redis hash "schema": "<resource>.fields" -> field names
    hashes,          \* the Redis hashes "<model>": "<resource>.<field>" -> value
    persisted,       \* history: <<model, id>> -> the dump last set, the one set before it,
                     \* and whether removed since
    tree,            \* the dict handed to _dump_content / _load_content
    writers,         \* the set() calls in progress: caller -> position and local variables
    iterations,      \* passes of the for loop made by the last refresh() call
    connects,        \* _connect() calls made by the last refresh() call
    options,         \* a _ModelOptions object that fields are added to and removed from
    defaults,        \* what the last get_defaults() call on options returned
    result           \* the last call: its name, arguments, outcome and return value

vars == <<cls, data, changes, provision_done, uuid_count, connection, reachable,
          retry_count, models, schema, hashes, persisted, tree, writers, iterations, connects,
          options, defaults, result>>

recordVars == <<cls, data, changes, provision_done>>
storeVars == <<models, schema, hashes, persisted>>
connVars == <<connection, reachable, retry_count>>
callVars == <<tree, writers, iterations, connects, options, defaults>>
optionVars == <<options, defaults>>

(***************************************************************************)
(* Bounds of the model.                                                    *)
(***************************************************************************)
MaxUuid == 2
MaxRetryCount == 2
MaxUpdateSize == 2
MaxDepth == 2

(***************************************************************************)
(* Python values.                                                          *)
(***************************************************************************)
None == "None"
IntValues == {"#0", "#1"}
StrValues == {"", "x"}
Values == {None} \cup IntValues \cup StrValues

TypeOf(v) == IF v = None THEN "NoneType" ELSE IF v \in IntValues THEN "int" ELSE "str"

\* bool(v): None, 0 and "" are falsy
Truthy(v) == v \notin {None, "", "#0"}

\* isinstance(value, field_type)
IsInstance(v, t) == TypeOf(v) = t

(***************************************************************************)
(* Python dicts.                                                           *)
(***************************************************************************)
EmptyDict == [k \in {} |-> None]

\* d.get(k)
Get(d, k) == IF k \in DOMAIN d THEN d[k] ELSE None

\* d[k] = v
Put(d, k, v) == [x \in (DOMAIN d) \cup {k} |-> IF x = k THEN v ELSE d[x]]

\* d.update(e)
DictUpdate(d, e) == [x \in (DOMAIN d) \cup (DOMAIN e) |-> IF x \in DOMAIN e THEN e[x] ELSE d[x]]

\* d.pop(k, None), the dict that is left
Pop(d, k) == [x \in (DOMAIN d) \ {k} |-> d[x]]

(***************************************************************************)
(* Field: the meta information of one attribute.                           *)
(***************************************************************************)
UuidFactory == "lambda: str(uuid.uuid1())"

Field(name, key, field_type, default, is_required, is_read_only) ==
    [name |-> name, key |-> key, field_type |-> field_type, default |-> default,
     is_required |-> is_required, is_read_only |-> is_read_only]

\* six.callable(field.default)
Callable(default) == default = UuidFactory

\* ArestorModel.resource_id
ResourceIdField == Field("resource_id", "resource_id", "str", UuidFactory, FALSE, FALSE)

\* The record types of the model: Plain and Tagged are BaseModels, ModelA and
\* ModelB are ArestorModels (each inherits resource_id through the metaclass).
AllClasses == {"Plain", "Tagged", "ModelA", "ModelB"}

ClassFields(c) ==
    CASE c = "Plain" ->
           << Field("name", "name", "str", None, TRUE, FALSE),
              Field("count", "count", "int", "#0", FALSE, FALSE) >>
      [] c = "Tagged" ->
           << Field("alias", "alias_key", "str", None, TRUE, FALSE),
              Field("owner", "owner", "str", "root", FALSE, TRUE) >>
      [] c = "ModelA" ->
           << ResourceIdField,
              Field("count", "count", "int", "#0", FALSE, FALSE) >>
      [] c = "ModelB" ->
           << ResourceIdField,
              Field("name", "name", "str", None, TRUE, FALSE) >>
      [] OTHER -> << >>

\* issubclass(c, ArestorModel): the record holds a connector
IsArestorModel(c) == c \in {"ModelA", "ModelB"}

(***************************************************************************)
(* _ModelOptions: the registry of a class's fields and their defaults.     *)
(***************************************************************************)
EmptyOptions == [fields |-> EmptyDict, defaults |-> EmptyDict, default_callables |-> EmptyDict]

\* _ModelOptions.remove_field
remove_field(m, field_name) ==
    LET field == Get(m.fields, field_name) IN
    IF field_name \notin DOMAIN m.fields THEN m
    ELSE IF field.default = None THEN [m EXCEPT !.fields = Pop(@, field_name)]
    ELSE IF Callable(field.default)
         THEN [m EXCEPT !.fields = Pop(@, field_name),
                        !.default_callables = Pop(@, field.name)]
         ELSE [m EXCEPT !.fields = Pop(@, field_name),
                        !.defaults = Pop(@, field.name)]

\* _ModelOptions.add_field
add_field(m, field) ==
    LET r == remove_field(m, field.name)
        s == [r EXCEPT !.fields = Put(@, field.name, field)] IN
    IF field.default = None THEN s
    ELSE IF Callable(field.default)
         THEN [s EXCEPT !.default_callables = Put(@, field.key, field.default)]
         ELSE [s EXCEPT !.defaults = Put(@, field.key, field.default)]

RECURSIVE AddAll(_, _)
AddAll(m, fs) == IF fs = << >> THEN m ELSE AddAll(add_field(m, Head(fs)), Tail(fs))

\* _BaseModel.__new__: cls._meta, every Field of the class added to it
MetaTable == [c \in AllClasses \cup {"none"} |-> AddAll(EmptyOptions, ClassFields(c))]

Meta(c) == MetaTable[c]

\* the name of the uuid handed out n-th
Uuid(n) == "uuid-" \o ToString(n)

\* _ModelOptions.get_defaults, with n uuids handed out before the call
get_defaults(m, n) ==
    [k \in (DOMAIN m.defaults) \cup (DOMAIN m.default_callables) |->
        IF k \in DOMAIN m.default_callables THEN Uuid(n + 1) ELSE m.defaults[k]]

(***************************************************************************)
(* The record (BaseModel instance) as a value.                             *)
(***************************************************************************)
Rec(d, ch, p) == [data |-> d, changes |-> ch, provision_done |-> p]

\* _FieldDescriptor.__get__
DescriptorGet(r, field) == Get(r.data, field.key)

\* __set__ without the read-only check
DescriptorSetWritable(r, field, value) ==
    IF ~IsInstance(value, field.field_type)
    THEN [outcome |-> "TypeError: invalid type", rec |-> r]
    ELSE [outcome |-> "ok",
          rec |-> [r EXCEPT !.changes = Put(@, field.key, value),
                            !.data = Put(@, field.key, value)]]

\* __set__ without the isinstance check
DescriptorSetUntyped(r, field, value) ==
    IF r.provision_done /\ field.is_read_only
    THEN [outcome |-> "TypeError: read only", rec |-> r]
    ELSE [outcome |-> "ok",
          rec |-> [r EXCEPT !.changes = Put(@, field.key, value),
                            !.data = Put(@, field.key, value)]]

\* __set__ recording the value in _changes only
DescriptorSetPendingOnly(r, field, value) ==
    IF ~IsInstance(value, field.field_type)
    THEN [outcome |-> "TypeError: invalid type", rec |-> r]
    ELSE IF r.provision_done /\ field.is_read_only
    THEN [outcome |-> "TypeError: read only", rec |-> r]
    ELSE [outcome |-> "ok", rec |-> [r EXCEPT !.changes = Put(@, field.key, value)]]

\* _FieldDescriptor.__set__: the outcome and the record afterwards
DescriptorSet(r, field, value) ==
    IF ~IsInstance(value, field.field_type)
    THEN [outcome |-> "TypeError: invalid type", rec |-> r]
    ELSE IF r.provision_done /\ field.is_read_only
    THEN [outcome |-> "TypeError: read only", rec |-> r]
    ELSE [outcome |-> "ok",
          rec |-> [r EXCEPT !.changes = Put(@, field.key, value),
                            !.data = Put(@, field.key, value)]]

\* _set_fields assigning every supplied value, falsy ones too
RECURSIVE SetFieldsSupplied(_, _, _)
SetFieldsSupplied(r, fs, fields) ==
    IF fs = << >> THEN [outcome |-> "ok", rec |-> r]
    ELSE LET field == Head(fs)
             value == Get(fields, field.name) IN
         IF field.key \notin DOMAIN r.data \/ value # None
         THEN LET s == DescriptorSet(r, field, value) IN
              IF s.outcome = "ok" THEN SetFieldsSupplied(s.rec, Tail(fs), fields) ELSE s
         ELSE SetFieldsSupplied(r, Tail(fs), fields)

\* BaseModel._set_fields over the fields fs, in order; an error ends it
RECURSIVE SetFields(_, _, _)
SetFields(r, fs, fields) ==
    IF fs = << >> THEN [outcome |-> "ok", rec |-> r]
    ELSE LET field == Head(fs)
             value == Get(fields, field.name) IN
         IF field.key \notin DOMAIN r.data \/ Truthy(value)
         THEN LET s == DescriptorSet(r, field, value) IN
              IF s.outcome = "ok" THEN SetFields(s.rec, Tail(fs), fields) ELSE s
         ELSE SetFields(r, Tail(fs), fields)

\* BaseModel.__init__ for class c with n uuids handed out before
Construct(c, fields, n) ==
    LET r0 == Rec(get_defaults(Meta(c), n), EmptyDict, FALSE)
        s == SetFields(r0, ClassFields(c), fields) IN
    IF s.outcome = "ok" THEN [outcome |-> "ok", rec |-> [s.rec EXCEPT !.provision_done = TRUE]]
    ELSE s

\* BaseModel.validate: the first required field found missing, or None
RECURSIVE FirstMissing(_, _)
FirstMissing(d, fs) ==
    IF fs = << >> THEN None
    ELSE IF Head(fs).is_required /\ Get(d, Head(fs).name) = None THEN Head(fs).name
    ELSE FirstMissing(d, Tail(fs))

\* BaseModel.update: the staged changes
RECURSIVE Stage(_, _, _)
Stage(ch, fs, fields) ==
    IF fs = << >> THEN ch
    ELSE IF Head(fs).name \in DOMAIN fields
         THEN Stage(Put(ch, Head(fs).key, fields[Head(fs).name]), Tail(fs), fields)
         ELSE Stage(ch, Tail(fs), fields)

\* update() staging without the write-through to _data
UpdateRecStaged(r, c, fields) ==
    IF DOMAIN fields = {} THEN r
    ELSE [r EXCEPT !.changes = Stage(r.changes, ClassFields(c), fields)]

\* BaseModel.update
UpdateRec(r, c, fields) ==
    IF DOMAIN fields = {} THEN r
    ELSE LET ch == Stage(r.changes, ClassFields(c), fields) IN
         [r EXCEPT !.changes = ch, !.data = DictUpdate(@, ch)]

\* commit() that merges _changes and does not clear it
CommitRecKeepChanges(r) == [r EXCEPT !.data = DictUpdate(@, r.changes)]

\* BaseModel.commit
CommitRec(r) == [r EXCEPT !.data = DictUpdate(@, r.changes), !.changes = EmptyDict]

\* BaseModel.dump
RECURSIVE DumpFields(_, _, _, _)
DumpFields(content, d, fs, include_read_only) ==
    IF fs = << >> THEN content
    ELSE LET field == Head(fs)
             value == Get(d, field.key) IN
         IF field.is_read_only /\ ~include_read_only
         THEN DumpFields(content, d, Tail(fs), include_read_only)
         ELSE IF ~field.is_required /\ value = None
         THEN DumpFields(content, d, Tail(fs), include_read_only)
         ELSE DumpFields(Put(content, field.key, value), d, Tail(fs), include_read_only)

Dump(d, c) == DumpFields(EmptyDict, d, ClassFields(c), TRUE)

\* BaseModel.process_raw_data: field name -> the raw value under the field's key
process_raw_data(c, raw_data) ==
    LET fs == ClassFields(c) IN
    [name \in {fs[i].name : i \in DOMAIN fs} |->
        LET i == CHOOSE j \in DOMAIN fs : fs[j].name = name IN Get(raw_data, fs[i].key)]

(***************************************************************************)
(* RedisConnector: the connection.                                         *)
(***************************************************************************)
\* RedisConnector.is_alive: a ConnectionError of ping() is caught and gives False
is_alive(conn, reach) == conn # None /\ reach

\* RedisConnector._connect: the new connection and the value returned
\* (True when the new connection is NOT alive, None when it is)
Connect(reach) ==
    [connection |-> "StrictRedis",
     returns |-> IF ~is_alive("StrictRedis", reach) THEN "True" ELSE None]

\* refresh() trying _connect() before is_alive()
RECURSIVE RefreshLoopConnectFirst(_, _, _)
RefreshLoopConnectFirst(conn, reach, n) ==
    IF n = 0
    THEN [outcome |-> "ArestorException", connection |-> conn, iterations |-> 0, connects |-> 0]
    ELSE LET c == Connect(reach) IN
         IF c.returns = "True" \/ is_alive(c.connection, reach)
         THEN [outcome |-> "ok", connection |-> c.connection, iterations |-> 1, connects |-> 1]
         ELSE LET r == RefreshLoopConnectFirst(c.connection, reach, n - 1) IN
              [r EXCEPT !.iterations = @ + 1, !.connects = @ + 1]

\* RedisConnector.refresh with n iterations of the for loop left: the outcome,
\* the connection, and the iterations and _connect() calls it took
RECURSIVE RefreshLoop(_, _, _)
RefreshLoop(conn, reach, n) ==
    IF n = 0
    THEN [outcome |-> "ArestorException", connection |-> conn, iterations |-> 0, connects |-> 0]
    ELSE IF is_alive(conn, reach)
    THEN [outcome |-> "ok", connection |-> conn, iterations |-> 1, connects |-> 0]
    ELSE LET c == Connect(reach) IN
         IF c.returns = "True"
         THEN [outcome |-> "ok", connection |-> c.connection, iterations |-> 1, connects |-> 1]
         ELSE LET r == RefreshLoop(c.connection, reach, n - 1) IN
              [r EXCEPT !.iterations = @ + 1, !.connects = @ + 1]

\* RedisConnector.refresh
Refresh(conn, reach, retries) == RefreshLoop(conn, reach, retries)

\* a command sent over the connection: redis.ConnectionError when the server is away
Command(reach) == IF reach THEN "ok" ELSE "ConnectionError"

(***************************************************************************)
(* RedisConnector: the keys and the resources.                             *)
(***************************************************************************)
Store(m, s, h) == [models |-> m, schema |-> s, hashes |-> h]

\* "models.{model}".format(model=model_name)
ModelsKey(model_name) == "models." \o model_name

\* "{resource}.fields".format(resource=resource_id)
SchemaKey(resource_id) == resource_id \o ".fields"

\* "{resource}.{field}".format(resource=resource_id, field=field)
FieldKey(resource_id, field) == resource_id \o "." \o field

\* SMEMBERS key
Members(m, key) == IF key \in DOMAIN m THEN m[key] ELSE {}

\* the keys of content in the order dump() inserted them
RECURSIVE KeysInOrder(_, _)
KeysInOrder(content, fs) ==
    IF fs = << >> THEN << >>
    ELSE IF Head(fs).key \in DOMAIN content
         THEN <<Head(fs).key>> \o KeysInOrder(content, Tail(fs))
         ELSE KeysInOrder(content, Tail(fs))

\* ",".join(keys)
RECURSIVE Join(_)
Join(keys) ==
    IF keys = << >> THEN ""
    ELSE IF Len(keys) = 1 THEN Head(keys)
    ELSE Head(keys) \o "," \o Join(Tail(keys))

\* RedisConnector._set_field: json is not imported by connector.py, so
\* json.dumps raises NameError before HSET is sent
SetField(st, model_name, resource_id, field, value) ==
    [outcome |-> "NameError", st |-> st]

\* _add_resource keeping the index entry back
SaddDeferred(st, model_name, resource_id) == st

\* self._connection.sadd(models_key, resource_id)
Sadd(st, model_name, resource_id) ==
    [st EXCEPT !.models = Put(@, ModelsKey(model_name),
                              Members(@, ModelsKey(model_name)) \cup {resource_id})]

\* self._connection.hset("schema", schema_key, ",".join(content.keys()))
HsetSchema(st, resource_id, keys) ==
    [st EXCEPT !.schema = Put(@, SchemaKey(resource_id), Join(keys))]

\* RedisConnector._add_resource: SADD, HSET schema, then _set_field per field
add_resource(st, model_name, resource_id, content, keys) ==
    LET st1 == Sadd(st, model_name, resource_id)
        st2 == HsetSchema(st1, resource_id, keys) IN
    IF keys = << >> THEN [outcome |-> "ok", st |-> st2]
    ELSE SetField(st2, model_name, resource_id, Head(keys), content[Head(keys)])

\* RedisConnector._get_resource: the outcomes it can have.  HGET of an absent
\* schema key gives None, and None.split raises AttributeError; otherwise the
\* loop body runs at least once and reads the local `field` before it is
\* assigned (UnboundLocalError; on Python 3 the bytes of HGET make
\* split(",") raise TypeError first).
get_resource(st, model_name, resource_id) ==
    IF SchemaKey(resource_id) \notin DOMAIN st.schema
    THEN {"AttributeError"}
    ELSE {"UnboundLocalError", "TypeError"}

\* RedisConnector._remove_resource (no caller)
remove_resource(st, model_name, resource_id) ==
    [st EXCEPT !.models = Put(@, ModelsKey(model_name),
                              Members(@, ModelsKey(model_name)) \ {resource_id}),
               !.schema = Pop(@, SchemaKey(resource_id))]

(***************************************************************************)
(* RedisConnector: _dump_content and _load_content over nested dicts.      *)
(* Here a key is the sequence of its characters, and a value is a leaf or  *)
(* a dict of such values.                                                  *)
(***************************************************************************)
Leaf(v) == [kind |-> "leaf", value |-> v]

Dict(items) == [kind |-> "dict", items |-> items]

\* isinstance(value, dict)
IsDict(node) == node.kind = "dict"

\* content_key = key if not prefix else "{}.{}".format(prefix, key)
ContentKey(prefix, key) == IF prefix = << >> THEN key ELSE prefix \o <<".">> \o key

\* RedisConnector._dump_content(root, prefix): a dict among the values sends
\* it to self._process_content, which no class defines (AttributeError)
DumpContent(root, prefix) ==
    IF \E key \in DOMAIN root.items : IsDict(root.items[key])
    THEN [outcome |-> "AttributeError", content |-> Dict(EmptyDict)]
    ELSE [outcome |-> "ok",
          content |-> Dict([ck \in {ContentKey(prefix, key) : key \in DOMAIN root.items} |->
                               root.items[CHOOSE key \in DOMAIN root.items :
                                              ContentKey(prefix, key) = ck]])]

\* key.split(".")
RECURSIVE Split(_)
Split(key) ==
    IF \A i \in DOMAIN key : key[i] # "." THEN <<key>>
    ELSE LET i == CHOOSE j \in DOMAIN key : key[j] = "." /\ \A k \in 1..(j - 1) : key[k] # "." IN
         <<SubSeq(key, 1, i - 1)>> \o Split(SubSeq(key, i + 1, Len(key)))

\* the while loop of _load_content and the assignment after it:
\* container = container.setdefault(entities.pop(0), {}) down the path, then
\* container[container_key] = value.  A value that is no dict has neither
\* setdefault (AttributeError) nor item assignment (TypeError).
RECURSIVE Insert(_, _, _, _)
Insert(container, entities, container_key, value) ==
    IF ~IsDict(container)
    THEN [outcome |-> IF entities = << >> THEN "TypeError" ELSE "AttributeError",
          node |-> container]
    ELSE IF entities = << >>
    THEN [outcome |-> "ok", node |-> Dict(Put(container.items, container_key, value))]
    ELSE LET e == Head(entities)
             child == IF e \in DOMAIN container.items THEN container.items[e]
                      ELSE Dict(EmptyDict)
             s == Insert(child, Tail(entities), container_key, value) IN
         IF s.outcome = "ok"
         THEN [outcome |-> "ok", node |-> Dict(Put(container.items, e, s.node))]
         ELSE s

\* the for loop of _load_content over items, the pairs of data.items() in order
RECURSIVE LoadItems(_, _)
LoadItems(content, items) ==
    IF items = << >> THEN [outcome |-> "ok", content |-> content]
    ELSE LET entities == Split(Head(items)[1])
             s == Insert(content, SubSeq(entities, 1, Len(entities) - 1),
                         entities[Len(entities)], Head(items)[2]) IN
         IF s.outcome = "ok" THEN LoadItems(s.node, Tail(items))
         ELSE [outcome |-> s.outcome, content |-> Dict(EmptyDict)]

\* RedisConnector._load_content(data)
LoadContent(items) == LoadItems(Dict(EmptyDict), items)

\* the orders in which data.items() can hand out the items of data
Items(flat) ==
    {items \in [1..Cardinality(DOMAIN flat.items) -> {<<k, flat.items[k]>> : k \in DOMAIN flat.items}] :
        \A i, j \in DOMAIN items : i # j => items[i] # items[j]}

\* RedisConnector._dump_content of a dump without nested dicts
dump_content(root) == root

\* RedisConnector.set(model): outcome, connection and store afterwards
ConnectorSet(d, c, conn, reach, retries, st) ==
    LET rf == Refresh(conn, reach, retries)
        content == dump_content(Dump(d, c)) IN
    IF rf.outcome # "ok" THEN [outcome |-> rf.outcome, connection |-> rf.connection, st |-> st]
    ELSE IF Command(reach) # "ok"
    THEN [outcome |-> Command(reach), connection |-> rf.connection, st |-> st]
    ELSE LET a == add_resource(st, c, Get(d, "resource_id"), content,
                               KeysInOrder(content, ClassFields(c))) IN
         [outcome |-> a.outcome, connection |-> rf.connection, st |-> a.st]

\* RedisConnector.get(resource_id, model_name): the outcomes it can have
ConnectorGet(resource_id, model_name, conn, reach, retries, st) ==
    LET rf == Refresh(conn, reach, retries) IN
    IF rf.outcome # "ok" THEN {rf.outcome}
    ELSE IF Command(reach) # "ok" THEN {Command(reach)}
    ELSE get_resource(st, model_name, resource_id)

\* RedisConnector.get_all(model_name): the outcomes it can have; "ok" returns []
ConnectorGetAll(model_name, conn, reach, retries, st) ==
    LET rf == Refresh(conn, reach, retries)
        ids == Members(st.models, ModelsKey(model_name)) IN
    IF rf.outcome # "ok" THEN {rf.outcome}
    ELSE IF Command(reach) # "ok" THEN {Command(reach)}
    ELSE IF ids = {} THEN {"ok"}
    ELSE UNION {get_resource(st, model_name, id) : id \in ids}

\* RedisConnector.remove(resource_id, model_name): refresh() and nothing else
ConnectorRemove(resource_id, model_name, conn, reach, retries, st) ==
    LET rf == Refresh(conn, reach, retries) IN
    [outcome |-> rf.outcome, connection |-> rf.connection, st |-> st]

\* the parameters of RedisConnector.set besides self, and the arguments
\* ArestorModel.commit passes to it
SetParameters == 1
CommitArguments == 2

\* commit() merging the local state before it calls connector.set
ArestorCommitMergeFirst(r, c, conn, reach, retries, st) ==
    LET s == IF CommitArguments # SetParameters
             THEN [outcome |-> "TypeError: set() arguments", connection |-> conn, st |-> st]
             ELSE ConnectorSet(CommitRec(r).data, c, conn, reach, retries, st) IN
    [outcome |-> s.outcome, connection |-> s.connection, st |-> s.st, rec |-> CommitRec(r)]

\* ArestorModel.commit: connector.set first, BaseModel.commit after it
ArestorCommit(r, c, conn, reach, retries, st) ==
    LET s == IF CommitArguments # SetParameters
             THEN [outcome |-> "TypeError: set() arguments", connection |-> conn, st |-> st]
             ELSE ConnectorSet(r.data, c, conn, reach, retries, st) IN
    [outcome |-> s.outcome, connection |-> s.connection, st |-> s.st,
     rec |-> IF s.outcome = "ok" THEN CommitRec(r) ELSE r]

(***************************************************************************)
(* The inputs.                                                             *)
(***************************************************************************)
RecordClasses == {"Plain", "Tagged", "ModelA"}
StoreClasses == {"ModelA", "ModelB"}

FieldNames(c) == DOMAIN Meta(c).fields

FieldOf(c, name) == Meta(c).fields[name]

\* the keyword arguments of a constructor call: schema names and an unknown one
FieldMapsTable ==
    [c \in AllClasses |->
        {f \in UNION {[S -> Values \ {None}] : S \in SUBSET (FieldNames(c) \cup {"bogus"})} :
            "bogus" \in DOMAIN f => f["bogus"] = "x"}]

FieldMaps(c) == FieldMapsTable[c]

\* the constructor calls of the store's clients: truthy values of known fields
StoreFieldMaps(c) ==
    {f \in FieldMaps(c) : \A k \in DOMAIN f : Truthy(f[k]) /\ k # "bogus"}

\* the argument of update(): at most MaxUpdateSize entries
UpdateMapsTable ==
    [c \in AllClasses \cup {"none"} |->
        {f \in UNION {[S -> Values] : S \in {T \in SUBSET (FieldNames(c) \cup {"bogus"}) :
                                                 Cardinality(T) <= MaxUpdateSize}} :
            "bogus" \in DOMAIN f => f["bogus"] = "x"}]

UpdateMaps(c) == UpdateMapsTable[c]

\* the resource ids the store's clients ask for
ResourceIds == {"x"} \cup {Uuid(i) : i \in 1..MaxUuid}

\* the keys and the leaves of the dicts handed to _dump_content
Keys == {<<"a">>, <<"b">>}

Leaves == {Leaf("#1"), Leaf("#2")}

\* the dicts over Keys nested at most depth levels below the top
RECURSIVE Nested(_)
Nested(depth) ==
    LET values == IF depth = 0 THEN Leaves ELSE Leaves \cup Nested(depth - 1) IN
    {Dict(f) : f \in UNION {[S -> values] : S \in SUBSET Keys}}

\* flat dicts as Redis hands them to _load_content, dotted keys among them
DottedKeys == {<<"a", ".", "b">>, <<"b", ".", "a", ".", "b">>}

FlatDicts == {Dict(f) : f \in UNION {[S -> Leaves] : S \in SUBSET (Keys \cup DottedKeys)}}

Roots == Nested(MaxDepth) \cup FlatDicts

\* the callers of set() that run side by side
Writers == {"w1", "w2"}

Idle == [pc |-> "idle", model_name |-> None, resource_id |-> None,
         content |-> EmptyDict, keys |-> << >>]

\* the fields handed to add_field: a field under its own name or under another
\* key, with no default, a default or another, and one with a callable default
FieldSpecs ==
    {Field("a", key, "int", default, FALSE, FALSE) :
        key \in {"a", "a_key"}, default \in {None, "#0", "#1"}}
    \cup {Field("a", "a", "str", UuidFactory, FALSE, FALSE)}
    \cup {Field("b", "b", "int", default, FALSE, FALSE) : default \in {None, "#0"}}

Connectivity == {"ArestorException", "ConnectionError"}

Result(op, args, outcome, value) ==
    [op |-> op, args |-> args, outcome |-> outcome, value |-> value]

ThisRec == Rec(data, changes, provision_done)

(***************************************************************************)
(* The state machine.                                                      *)
(***************************************************************************)
Init ==
    /\ cls = "none"
    /\ data = EmptyDict
    /\ changes = EmptyDict
    /\ provision_done = FALSE
    /\ uuid_count = 0
    /\ connection \in {None, "StrictRedis"}
    /\ reachable \in BOOLEAN
    /\ retry_count \in 1..MaxRetryCount
    /\ models = EmptyDict
    /\ schema = EmptyDict
    /\ hashes = EmptyDict
    /\ persisted = EmptyDict
    /\ tree = Dict(EmptyDict)
    /\ writers = [w \in Writers |-> Idle]
    /\ iterations = 0
    /\ connects = 0
    /\ options = EmptyOptions
    /\ defaults = EmptyDict
    /\ result = Result("none", EmptyDict, "ok", None)

\* T(**fields): BaseModel.__init__ / ArestorModel.__init__.  A constructor that
\* raises leaves no record.
New(c, fields) ==
    LET callables == Cardinality(DOMAIN Meta(c).default_callables)
        s == Construct(c, fields, uuid_count) IN
    /\ uuid_count + callables <= MaxUuid
    /\ uuid_count' = uuid_count + callables
    /\ cls' = IF s.outcome = "ok" THEN c ELSE "none"
    /\ data' = IF s.outcome = "ok" THEN s.rec.data ELSE EmptyDict
    /\ changes' = IF s.outcome = "ok" THEN s.rec.changes ELSE EmptyDict
    /\ provision_done' = (s.outcome = "ok")
    /\ result' = Result("__init__", [fields |-> fields, cls |-> c], s.outcome, None)
    /\ UNCHANGED <<callVars, connVars, storeVars>>

\* setattr(record, name, value)
SetAttr(name, value) ==
    LET s == DescriptorSet(ThisRec, FieldOf(cls, name), value) IN
    /\ cls # "none"
    /\ name \in FieldNames(cls)
    /\ data' = s.rec.data
    /\ changes' = s.rec.changes
    /\ result' = Result("__set__", [name |-> name, value |-> value], s.outcome, None)
    /\ UNCHANGED <<callVars, cls, provision_done, uuid_count, connVars, storeVars>>

\* record.update(fields)
Update(fields) ==
    LET r == UpdateRec(ThisRec, cls, fields) IN
    /\ cls # "none"
    /\ data' = r.data
    /\ changes' = r.changes
    /\ result' = Result("update", [fields |-> fields], "ok", None)
    /\ UNCHANGED <<callVars, cls, provision_done, uuid_count, connVars, storeVars>>

\* record.validate()
Validate ==
    LET missing == FirstMissing(data, ClassFields(cls)) IN
    /\ cls # "none"
    /\ result' = Result("validate", EmptyDict,
                        IF missing = None THEN "ok" ELSE "DataProcessingError", missing)
    /\ UNCHANGED <<callVars, recordVars, uuid_count, connVars, storeVars>>

\* record.commit()
Commit ==
    /\ cls # "none"
    /\ IF IsArestorModel(cls)
       THEN LET s == ArestorCommit(ThisRec, cls, connection, reachable, retry_count,
                                   Store(models, schema, hashes)) IN
            /\ data' = s.rec.data
            /\ changes' = s.rec.changes
            /\ connection' = s.connection
            /\ models' = s.st.models
            /\ schema' = s.st.schema
            /\ hashes' = s.st.hashes
            /\ result' = Result("commit", EmptyDict, s.outcome, None)
       ELSE /\ data' = CommitRec(ThisRec).data
            /\ changes' = CommitRec(ThisRec).changes
            /\ result' = Result("commit", EmptyDict, "ok", None)
            /\ UNCHANGED <<connection, models, schema, hashes>>
    /\ UNCHANGED <<callVars, cls, provision_done, uuid_count, reachable, retry_count, persisted>>

StoreArgs(resource_id, model_name) == [resource_id |-> resource_id, model_name |-> model_name]

ThisStore == Store(models, schema, hashes)

\* history: dump is set for key, after what was set for it before
Record(key, dump) ==
    Put(persisted, key,
        [dump |-> dump, removed |-> FALSE,
         previous |-> IF key \in DOMAIN persisted THEN persisted[key].dump ELSE dump])

\* history: (model_name, resource_id) was set and not removed since
Live(model_name, resource_id) ==
    /\ <<model_name, resource_id>> \in DOMAIN persisted
    /\ ~persisted[<<model_name, resource_id>>].removed

\* connector.set(record)
StoreSet ==
    LET s == ConnectorSet(data, cls, connection, reachable, retry_count, ThisStore)
        id == Get(data, "resource_id") IN
    /\ cls # "none"
    /\ IsArestorModel(cls)
    /\ connection' = s.connection
    /\ models' = s.st.models
    /\ schema' = s.st.schema
    /\ hashes' = s.st.hashes
    /\ persisted' = IF s.outcome \in Connectivity THEN persisted
                    ELSE Record(<<cls, id>>, Dump(data, cls))
    /\ result' = Result("set", StoreArgs(id, cls), s.outcome, None)
    /\ UNCHANGED <<callVars, recordVars, uuid_count, reachable, retry_count>>

\* connector.get(resource_id=..., model_name=...)
StoreGet(resource_id, model_name) ==
    /\ \E outcome \in ConnectorGet(resource_id, model_name, connection, reachable,
                                   retry_count, ThisStore) :
            result' = Result("get", StoreArgs(resource_id, model_name), outcome, None)
    /\ connection' = Refresh(connection, reachable, retry_count).connection
    /\ UNCHANGED <<callVars, recordVars, uuid_count, reachable, retry_count, storeVars>>

\* connector.get_all(model_name)
StoreGetAll(model_name) ==
    /\ \E outcome \in ConnectorGetAll(model_name, connection, reachable, retry_count, ThisStore) :
            result' = Result("get_all", StoreArgs(None, model_name), outcome,
                             IF outcome = "ok" THEN "[]" ELSE None)
    /\ connection' = Refresh(connection, reachable, retry_count).connection
    /\ UNCHANGED <<callVars, recordVars, uuid_count, reachable, retry_count, storeVars>>

\* connector.remove(resource_id=..., model_name=...)
StoreRemove(resource_id, model_name) ==
    LET s == ConnectorRemove(resource_id, model_name, connection, reachable, retry_count,
                             ThisStore) IN
    /\ connection' = s.connection
    /\ models' = s.st.models
    /\ schema' = s.st.schema
    /\ hashes' = s.st.hashes
    /\ persisted' = IF s.outcome \notin Connectivity /\ Live(model_name, resource_id)
                    THEN [persisted EXCEPT ![<<model_name, resource_id>>].removed = TRUE]
                    ELSE persisted
    /\ result' = Result("remove", StoreArgs(resource_id, model_name), s.outcome, None)
    /\ UNCHANGED <<callVars, recordVars, uuid_count, reachable, retry_count>>

\* T.get(connector, resource_id): the arguments reach connector.get in the
\* order (cls.__name__, resource_id), that is resource_id=cls.__name__ and
\* model_name=resource_id; without an id every resource of get_all is rebuilt
ModelGet(c, resource_id) ==
    /\ \E outcome \in (IF Truthy(resource_id)
                       THEN ConnectorGet(c, resource_id, connection, reachable,
                                         retry_count, ThisStore)
                       ELSE ConnectorGetAll(c, connection, reachable, retry_count, ThisStore)) :
            result' = Result("Model.get", StoreArgs(resource_id, c), outcome,
                             IF outcome = "ok" THEN "[]" ELSE None)
    /\ connection' = Refresh(connection, reachable, retry_count).connection
    /\ UNCHANGED <<callVars, recordVars, uuid_count, reachable, retry_count, storeVars>>

\* T.remove(connector, resource_id): connector.remove(cls.__name__, resource_id)
ModelRemove(c, resource_id) ==
    LET s == ConnectorRemove(c, resource_id, connection, reachable, retry_count, ThisStore) IN
    /\ connection' = s.connection
    /\ models' = s.st.models
    /\ schema' = s.st.schema
    /\ hashes' = s.st.hashes
    /\ persisted' = IF s.outcome \notin Connectivity /\ Live(c, resource_id)
                    THEN [persisted EXCEPT ![<<c, resource_id>>].removed = TRUE]
                    ELSE persisted
    /\ result' = Result("Model.remove", StoreArgs(resource_id, c), s.outcome, None)
    /\ UNCHANGED <<callVars, recordVars, uuid_count, reachable, retry_count>>

\* connector.refresh()
RefreshCall ==
    LET rf == Refresh(connection, reachable, retry_count) IN
    /\ connection' = rf.connection
    /\ iterations' = rf.iterations
    /\ connects' = rf.connects
    /\ result' = Result("refresh", EmptyDict, rf.outcome, None)
    /\ UNCHANGED <<optionVars, tree, writers, recordVars, uuid_count, reachable, retry_count, storeVars>>

\* the Redis server goes away
ServerDown ==
    /\ reachable
    /\ reachable' = FALSE
    /\ UNCHANGED <<callVars, recordVars, uuid_count, connection, retry_count, storeVars, result>>

\* the Redis server comes back
ServerUp ==
    /\ ~reachable
    /\ reachable' = TRUE
    /\ UNCHANGED <<callVars, recordVars, uuid_count, connection, retry_count, storeVars, result>>

\* the record model on its own
Next ==
    \/ \E c \in RecordClasses : \E fields \in FieldMaps(c) : New(c, fields)
    \/ \E name \in FieldNames(cls) : \E value \in Values : SetAttr(name, value)
    \/ \E fields \in UpdateMaps(cls) : Update(fields)
    \/ Validate
    \/ Commit

\* a connector built with auto_connect=False beside a running server
InitModel == Init /\ connection = None /\ reachable /\ retry_count = 1

Spec == InitModel /\ [][Next]_vars

\* the records and the store
NextStore ==
    \/ \E c \in StoreClasses : \E fields \in StoreFieldMaps(c) : New(c, fields)
    \/ Commit
    \/ StoreSet
    \/ \E id \in ResourceIds : \E m \in StoreClasses : StoreGet(id, m)
    \/ \E m \in StoreClasses : StoreGetAll(m)
    \/ \E id \in ResourceIds : \E m \in StoreClasses : StoreRemove(id, m)
    \/ \E c \in StoreClasses : \E id \in ResourceIds \cup {None} : ModelGet(c, id)
    \/ \E c \in StoreClasses : \E id \in ResourceIds : ModelRemove(c, id)
    \/ ServerDown
    \/ ServerUp

SpecStore == Init /\ [][NextStore]_vars

\* the connection: refresh() on its own and in the calls that start with it,
\* over a store nothing is written to
NextRefresh ==
    \/ RefreshCall
    \/ \E id \in ResourceIds : \E m \in StoreClasses : StoreGet(id, m)
    \/ \E m \in StoreClasses : StoreGetAll(m)
    \/ \E id \in ResourceIds : \E m \in StoreClasses : StoreRemove(id, m)
    \/ ServerDown
    \/ ServerUp

SpecRefresh == Init /\ [][NextRefresh]_vars

\* connector.set(record) by caller w, up to the first write: refresh() and
\* _dump_content(model.dump())
SetEnter(w) ==
    LET rf == Refresh(connection, reachable, retry_count)
        id == Get(data, "resource_id")
        content == dump_content(Dump(data, cls)) IN
    /\ cls # "none"
    /\ IsArestorModel(cls)
    /\ writers[w].pc = "idle"
    /\ connection' = rf.connection
    /\ IF rf.outcome = "ok"
       THEN /\ writers' = [writers EXCEPT ![w] =
                              [pc |-> "sadd", model_name |-> cls, resource_id |-> id,
                               content |-> content,
                               keys |-> KeysInOrder(content, ClassFields(cls))]]
            /\ UNCHANGED result
       ELSE /\ result' = Result("set", StoreArgs(id, cls), rf.outcome, None)
            /\ UNCHANGED writers
    /\ UNCHANGED <<optionVars, tree, iterations, connects, recordVars, uuid_count, reachable,
                   retry_count, storeVars>>

\* how a set() call of w ends: with what it raised, or "ok"
SetLeave(w, outcome) ==
    LET key == <<writers[w].model_name, writers[w].resource_id>> IN
    /\ writers' = [writers EXCEPT ![w] = Idle]
    /\ result' = Result("set", StoreArgs(writers[w].resource_id, writers[w].model_name),
                        outcome, None)
    /\ persisted' = IF outcome \in Connectivity THEN persisted
                    ELSE Record(key, writers[w].content)

\* _add_resource of w: the SADD
SetSadd(w) ==
    /\ writers[w].pc = "sadd"
    /\ IF Command(reachable) = "ok"
       THEN /\ models' = Sadd(ThisStore, writers[w].model_name, writers[w].resource_id).models
            /\ writers' = [writers EXCEPT ![w].pc = "hset"]
            /\ UNCHANGED <<persisted, result>>
       ELSE /\ SetLeave(w, Command(reachable))
            /\ UNCHANGED models
    /\ UNCHANGED <<optionVars, tree, iterations, connects, recordVars, uuid_count, connVars, schema, hashes>>

\* _add_resource of w: the HSET of the schema entry
SetHset(w) ==
    /\ writers[w].pc = "hset"
    /\ IF Command(reachable) = "ok"
       THEN /\ schema' = HsetSchema(ThisStore, writers[w].resource_id, writers[w].keys).schema
            /\ IF writers[w].keys = << >>
               THEN SetLeave(w, "ok")
               ELSE /\ writers' = [writers EXCEPT ![w].pc = "fields"]
                    /\ UNCHANGED <<persisted, result>>
       ELSE /\ SetLeave(w, Command(reachable))
            /\ UNCHANGED schema
    /\ UNCHANGED <<optionVars, tree, iterations, connects, recordVars, uuid_count, connVars, models, hashes>>

\* _add_resource of w: _set_field for the next field
SetFieldStep(w) ==
    LET field == Head(writers[w].keys)
        s == SetField(ThisStore, writers[w].model_name, writers[w].resource_id,
                      field, writers[w].content[field]) IN
    /\ writers[w].pc = "fields"
    /\ hashes' = s.st.hashes
    /\ IF s.outcome = "ok" /\ Tail(writers[w].keys) # << >>
       THEN /\ writers' = [writers EXCEPT ![w].keys = Tail(@)]
            /\ UNCHANGED <<persisted, result>>
       ELSE SetLeave(w, s.outcome)
    /\ UNCHANGED <<optionVars, tree, iterations, connects, recordVars, uuid_count, connVars, models, schema>>

\* callers of set() side by side, each write of _add_resource a step of its own
NextSet ==
    \/ \E c \in StoreClasses : \E fields \in StoreFieldMaps(c) : New(c, fields)
    \/ \E w \in Writers : SetEnter(w)
    \/ \E w \in Writers : SetSadd(w)
    \/ \E w \in Writers : SetHset(w)
    \/ \E w \in Writers : SetFieldStep(w)
    \/ \E m \in StoreClasses : StoreGetAll(m)

\* a connector that holds a connection
InitSet == Init /\ connection = "StrictRedis" /\ retry_count = 1

SpecSet == InitSet /\ [][NextSet]_vars

\* the update() calls of the store's clients: one field besides the id is
\* cleared
StoreUpdateMaps(c) ==
    {f \in UpdateMaps(c) : /\ Cardinality(DOMAIN f) = 1
                           /\ DOMAIN f \subseteq FieldNames(c) \ {"resource_id"}
                           /\ \A k \in DOMAIN f : f[k] = None}

\* one caller that changes its record and sets, removes and gets it
NextOverwrite ==
    \/ \E c \in StoreClasses : \E fields \in StoreFieldMaps(c) : New(c, fields)
    \/ \E fields \in StoreUpdateMaps(cls) : Update(fields)
    \/ StoreSet
    \/ \E id \in ResourceIds : \E m \in StoreClasses : StoreRemove(id, m)
    \/ \E id \in ResourceIds : \E m \in StoreClasses : StoreGet(id, m)

SpecOverwrite == InitSet /\ [][NextOverwrite]_vars

\* the update() calls that clear the resource id
IdUpdateMaps(c) == {f \in UpdateMaps(c) : DOMAIN f = {"resource_id"} /\ ~Truthy(f["resource_id"])}

\* a caller that writes the resource id of its record and persists the record
NextIdentity ==
    \/ \E c \in StoreClasses : \E fields \in StoreFieldMaps(c) : New(c, fields)
    \/ \E value \in StrValues : SetAttr("resource_id", value)
    \/ \E fields \in IdUpdateMaps(cls) : Update(fields)
    \/ Commit
    \/ StoreSet

\* a connector that holds a connection to a running server
InitIdentity == InitSet /\ reachable

SpecIdentity == InitIdentity /\ [][NextIdentity]_vars

\* options.add_field(field)
AddField(field) ==
    /\ options' = add_field(options, field)
    /\ result' = Result("add_field", [field |-> field], "ok", None)
    /\ UNCHANGED <<defaults, tree, writers, iterations, connects, recordVars, uuid_count,
                   connVars, storeVars>>

\* options.remove_field(field_name)
RemoveField(field_name) ==
    /\ options' = remove_field(options, field_name)
    /\ result' = Result("remove_field", [field_name |-> field_name], "ok", None)
    /\ UNCHANGED <<defaults, tree, writers, iterations, connects, recordVars, uuid_count,
                   connVars, storeVars>>

\* options.get_defaults(): every callable default is called
GetDefaults ==
    LET callables == Cardinality(DOMAIN options.default_callables) IN
    /\ uuid_count + callables <= MaxUuid
    /\ uuid_count' = uuid_count + callables
    /\ defaults' = get_defaults(options, uuid_count)
    /\ result' = Result("get_defaults", EmptyDict, "ok", None)
    /\ UNCHANGED <<options, tree, writers, iterations, connects, recordVars,
                   connVars, storeVars>>

\* the registry of a class under construction
NextOptions ==
    \/ \E field \in FieldSpecs : AddField(field)
    \/ \E field_name \in {field.name : field \in FieldSpecs} : RemoveField(field_name)
    \/ GetDefaults

SpecOptions == InitModel /\ [][NextOptions]_vars

\* connector._dump_content(root)
DumpContentCall ==
    LET s == DumpContent(tree, << >>) IN
    /\ result' = Result("_dump_content", [root |-> tree], s.outcome, s.content)
    /\ UNCHANGED <<callVars, recordVars, uuid_count, connVars, storeVars>>

\* connector._load_content(data), data.items() handing out items
LoadContentCall(flat, items) ==
    LET s == LoadContent(items) IN
    /\ result' = Result("_load_content", [data |-> flat], s.outcome, s.content)
    /\ UNCHANGED <<callVars, recordVars, uuid_count, connVars, storeVars>>

\* what _load_content is called with: a flat dict read from Redis, or the
\* dict _dump_content has just returned
Loadable ==
    (IF \A key \in DOMAIN tree.items : ~IsDict(tree.items[key]) THEN {tree} ELSE {})
    \cup (IF result.op = "_dump_content" /\ result.outcome = "ok" THEN {result.value} ELSE {})

NextContent ==
    \/ DumpContentCall
    \/ \E flat \in Loadable : \E items \in Items(flat) : LoadContentCall(flat, items)

InitContent ==
    /\ cls = "none"
    /\ data = EmptyDict
    /\ changes = EmptyDict
    /\ provision_done = FALSE
    /\ uuid_count = 0
    /\ connection = None
    /\ reachable = TRUE
    /\ retry_count = 1
    /\ models = EmptyDict
    /\ schema = EmptyDict
    /\ hashes = EmptyDict
    /\ persisted = EmptyDict
    /\ tree \in Roots
    /\ writers = [w \in Writers |-> Idle]
    /\ iterations = 0
    /\ connects = 0
    /\ options = EmptyOptions
    /\ defaults = EmptyDict
    /\ result = Result("none", EmptyDict, "ok", Dict(EmptyDict))

\* _dump_content and _load_content applied to the dicts of Roots
SpecContent == InitContent /\ [][NextContent]_vars

(***************************************************************************)
(* The claims.                                                             *)
(***************************************************************************)
SchemaKeys(c) == {ClassFields(c)[i].key : i \in DOMAIN ClassFields(c)}

\* the last call was op, and it was not cut short by the connection
Completed(r, op) == r.op = op /\ r.outcome \notin Connectivity

\* C1: round trip through the store: after record r is persisted (connector.set,
\* or r.commit()), T.get(connector, r.resource_id) gives a record whose dump
\* equals r's dump at the time of the set.
C1_RoundTrip ==
    [][ ( /\ cls # "none" /\ IsArestorModel(cls) /\ reachable
          /\ (Completed(result, "set") \/ Completed(result, "commit"))
          /\ Completed(result', "Model.get")
          /\ result'.args = StoreArgs(Get(data, "resource_id"), cls) )
        => (result'.outcome = "ok" /\ result'.value = Dump(data, cls)) ]_vars

\* C2: for a type T and an id that was set, get(T, id) after remove(T, id), with
\* no set of that id in between, yields NotFoundError.
C2_RemoveThenGetNotFound ==
    [][ ( /\ (Completed(result', "get") \/ Completed(result', "Model.get"))
          /\ <<result'.args.model_name, result'.args.resource_id>> \in DOMAIN persisted
          /\ persisted[<<result'.args.model_name, result'.args.resource_id>>].removed )
        => result'.outcome = "NotFoundError" ]_vars

\* the ids that were set for model m and not removed since
LiveIds(m) == {k[2] : k \in {j \in DOMAIN persisted : j[1] = m /\ ~persisted[j].removed}}

\* the entries of the list a call returned ("[]" is the empty list)
Entries(value) == IF value = "[]" THEN {} ELSE {value}

\* C3: after any sequence of set and remove on type T the index set models.T is
\* exactly the set of ids set and not removed since, and get_all(T) returns
\* exactly one entry per such id, equal to the dump last set for it.
C3_GetAllExactlyLive ==
    [][ /\ \A m \in StoreClasses : Members(models', ModelsKey(m)) = LiveIds(m)'
        /\ Completed(result', "get_all")
             => /\ result'.outcome = "ok"
                /\ Entries(result'.value) = {persisted[<<result'.args.model_name, id>>].dump :
                                               id \in LiveIds(result'.args.model_name)} ]_vars

\* C4: validate() raises the missing-required error exactly when some required
\* field's current value is absent, whatever the field's name and key, and it
\* changes nothing of the record.
C4_ValidateIffMissing ==
    [][ result'.op = "validate"
        => /\ (result'.outcome = "DataProcessingError")
                <=> (\E i \in DOMAIN ClassFields(cls) :
                        /\ ClassFields(cls)[i].is_required
                        /\ DescriptorGet(ThisRec, ClassFields(cls)[i]) = None)
           /\ UNCHANGED recordVars ]_vars

\* the constructor writes field: it has no default, or a truthy value was supplied
Written(c, field, fields) ==
    field.key \notin DOMAIN Meta(c).defaults \cup DOMAIN Meta(c).default_callables
        \/ Truthy(Get(fields, field.name))

\* C5: a write to a read-only field succeeds during construction (the record is
\* not provisioned yet); the same write once construction is over fails with the
\* read-only error and leaves the pending and the current value as they were.
C5_ReadOnlyAfterProvision ==
    [][ /\ result'.op = "__init__"
             => /\ result'.outcome # "TypeError: read only"
                /\ result'.outcome = "ok"
                     => \A i \in DOMAIN ClassFields(cls') :
                           LET field == ClassFields(cls')[i]
                               value == Get(result'.args.fields, field.name) IN
                           (field.is_read_only /\ Written(cls', field, result'.args.fields))
                              => data'[field.key] = value /\ changes'[field.key] = value
        /\ ( /\ result'.op = "__set__"
             /\ provision_done
             /\ FieldOf(cls, result'.args.name).is_read_only
             /\ IsInstance(result'.args.value, FieldOf(cls, result'.args.name).field_type) )
             => /\ result'.outcome = "TypeError: read only"
                /\ data' = data
                /\ changes' = changes ]_vars

\* C5 witness: owner was written by the constructor, and the same write is
\* refused afterwards
C5_Witness ==
    /\ cls = "Tagged" /\ provision_done
    /\ result.op = "__set__"
    /\ result.args = [name |-> "owner", value |-> "x"]
    /\ result.outcome = "TypeError: read only"
    /\ data["owner"] = "x"

\* C6: a field write whose value is not of the field's declared type fails with
\* the type error, provisioned or not, and leaves pending and current value as
\* they were.
C6_TypeMismatchRejected ==
    [][ /\ ( /\ result'.op = "__set__"
             /\ ~IsInstance(result'.args.value, FieldOf(cls, result'.args.name).field_type) )
             => /\ result'.outcome = "TypeError: invalid type"
                /\ data' = data
                /\ changes' = changes
        /\ ( /\ result'.op = "__init__"
             /\ \E i \in DOMAIN ClassFields(result'.args.cls) :
                   LET field == ClassFields(result'.args.cls)[i] IN
                   /\ Written(result'.args.cls, field, result'.args.fields)
                   /\ ~IsInstance(Get(result'.args.fields, field.name), field.field_type) )
             => /\ result'.outcome = "TypeError: invalid type"
                /\ cls' = "none" ]_vars

\* C6 witness: a provisioned record refused a value of the wrong type
C6_Witness ==
    /\ cls = "Plain" /\ provision_done
    /\ result.op = "__set__"
    /\ result.args = [name |-> "count", value |-> "x"]
    /\ result.outcome = "TypeError: invalid type"
    /\ data["count"] = "#1"

\* the schema fields that update(fields) names
Named(c, fields) == {i \in DOMAIN ClassFields(c) : ClassFields(c)[i].name \in DOMAIN fields}

\* update(fields) staged exactly the entries of fields that name a schema field
StagedExactly(fields) ==
    /\ \A i \in Named(cls, fields) :
          Get(changes', ClassFields(cls)[i].key) = fields[ClassFields(cls)[i].name]
    /\ DOMAIN changes' = DOMAIN changes \cup {ClassFields(cls)[i].key : i \in Named(cls, fields)}
    /\ \A k \in DOMAIN changes :
          k \notin {ClassFields(cls)[i].key : i \in Named(cls, fields)} => changes'[k] = changes[k]

\* C7 as claimed: update(fields) stages into pending every entry whose name is in
\* both fields and the schema, ignores unknown names, and leaves the committed
\* map (_data) unchanged: it changes only when commit() runs.
C7_UpdateLeavesCommitted ==
    [][ result'.op = "update"
        => /\ StagedExactly(result'.args.fields)
           /\ data' = data ]_vars

\* C7 amended: update(fields) stages into pending every entry whose name is in
\* both fields and the schema, ignores unknown names, and writes every pending
\* entry through to _data at once, as a field write does; commit() then changes
\* no value of _data and only clears pending.
C7_UpdateWritesThrough ==
    [][ /\ result'.op = "update"
             => /\ StagedExactly(result'.args.fields)
                /\ DOMAIN data' = DOMAIN data \cup DOMAIN changes'
                /\ \A k \in DOMAIN data' :
                      data'[k] = IF k \in DOMAIN changes' THEN changes'[k] ELSE data[k]
        /\ (result'.op = "commit" /\ result'.outcome = "ok")
             => data' = data /\ changes' = EmptyDict ]_vars

\* C7 witness: update() staged a new value of a schema field, dropped the
\* unknown name, and the value is already the current one
C7_Witness ==
    /\ cls = "Plain"
    /\ result.op = "update"
    /\ result.args.fields = [count |-> "#1", bogus |-> "x"]
    /\ changes = [count |-> "#1"]
    /\ data["count"] = "#1"

\* C8: commit() of a store-backed record calls connector.set before it touches
\* the local state: when set fails, pending and committed are what they were
\* before the call, so a second commit() persists the same changes again.
C8_FailedCommitKeepsState ==
    [][ (result'.op = "commit" /\ result'.outcome # "ok")
        => /\ data' = data
           /\ changes' = changes
           /\ Dump(data', cls') = Dump(data, cls) ]_vars

\* C8 witness: a commit of a store-backed record failed with changes pending
C8_Witness ==
    /\ IsArestorModel(cls)
    /\ result.op = "commit"
    /\ result.outcome # "ok"
    /\ changes = [count |-> "#1"]
    /\ data["count"] = "#1"

\* C9: constructing a record without a required field that has no default
\* completes without error and leaves the field absent (validate() then names
\* it): a constructor call whose supplied values all have the declared type
\* completes, and every schema field without a default that was not supplied
\* is absent afterwards.
C9_ConstructWithoutRequired ==
    [][ ( /\ result'.op = "__init__"
          /\ \A i \in DOMAIN ClassFields(result'.args.cls) :
                LET field == ClassFields(result'.args.cls)[i] IN
                field.name \in DOMAIN result'.args.fields
                   => IsInstance(result'.args.fields[field.name], field.field_type) )
        => /\ result'.outcome = "ok"
           /\ \A i \in DOMAIN ClassFields(result'.args.cls) :
                LET field == ClassFields(result'.args.cls)[i] IN
                ( /\ field.default = None
                  /\ field.name \notin DOMAIN result'.args.fields )
                   => Get(data', field.key) = None ]_vars

\* the default of a field for the constructor call that ends in the primed state
DefaultOf(field) == IF Callable(field.default) THEN Uuid(uuid_count') ELSE field.default

\* C10: a construction that completes starts from the schema defaults and ends,
\* for every schema field, with the supplied value when that value is truthy or
\* the field has no default, and with the default otherwise; supplied names
\* that are not in the schema are dropped without an error; a field that is not
\* supplied keeps its default and appears in dump().
C10_ConstructionMergesDefaults ==
    [][ result'.op = "__init__"
        => LET c == result'.args.cls
               fields == result'.args.fields IN
           /\ (\A i \in DOMAIN ClassFields(c) :
                  Written(c, ClassFields(c)[i], fields)
                     => IsInstance(Get(fields, ClassFields(c)[i].name),
                                   ClassFields(c)[i].field_type))
                 => result'.outcome = "ok"
           /\ result'.outcome = "ok"
                 => /\ DOMAIN data' \subseteq SchemaKeys(c)
                    /\ \A i \in DOMAIN ClassFields(c) :
                          LET field == ClassFields(c)[i]
                              value == Get(fields, field.name) IN
                          Get(data', field.key) =
                              IF Truthy(value) \/ field.default = None
                              THEN value ELSE DefaultOf(field)
                    /\ \A i \in DOMAIN ClassFields(c) :
                          LET field == ClassFields(c)[i] IN
                          (field.default # None /\ field.name \notin DOMAIN fields)
                             => /\ field.key \in DOMAIN Dump(data', c)
                                /\ Dump(data', c)[field.key] = DefaultOf(field) ]_vars

\* C10 witness: Plain(name="x", bogus="x") completed with the dump
\* {name: "x", count: 0}: count kept its default and bogus was dropped
C10_Witness ==
    /\ cls = "Plain"
    /\ result.op = "__init__" /\ result.outcome = "ok"
    /\ result.args.fields = [name |-> "x", bogus |-> "x"]
    /\ Dump(data, cls) = [name |-> "x", count |-> "#0"]

\* the keys of m and of the dicts below it hold no "."
RECURSIVE SeparatorFree(_)
SeparatorFree(m) ==
    \A key \in DOMAIN m.items :
        /\ \A i \in DOMAIN key : key[i] # "."
        /\ IsDict(m.items[key]) => SeparatorFree(m.items[key])

\* C11: for every nested dict m whose keys hold no ".", _dump_content(m)
\* returns a flat dict, and _load_content of that dict, whatever the order of
\* its items, returns m
C11_FlattenUnflatten ==
    [][(result'.op = "_dump_content" /\ SeparatorFree(tree))
       => /\ result'.outcome = "ok"
          /\ \A items \in Items(result'.value) :
                 LoadContent(items) = [outcome |-> "ok", content |-> tree] ]_vars

\* C12: connector.get for an id that has no schema entry raises NotFoundError,
\* returns no record, and leaves the store as it was
C12_GetAbsentNotFound ==
    [][\A id \in ResourceIds, m \in StoreClasses :
          (/\ StoreGet(id, m)
           /\ result'.outcome \notin Connectivity
           /\ SchemaKey(id) \notin DOMAIN schema)
          => /\ result'.outcome = "NotFoundError"
             /\ <<models, schema, hashes>>' = <<models, schema, hashes>> ]_vars

\* C14: refresh() raises only when no pass of its loop left a live connection
\* behind, for every retry_count >= 1
C14_RaisesOnlyWhenNoneLive ==
    [][(RefreshCall /\ result'.outcome = "ArestorException")
       => ~is_alive(connection', reachable') ]_vars

\* C15: when refresh() returns normally, a probe of the connection succeeds
C15_ReturnsOnlyWhenAlive ==
    [][(RefreshCall /\ result'.outcome = "ok")
       => is_alive(connection', reachable') ]_vars

\* C16: refresh() ends within retry_count passes of its loop, each with at
\* most one _connect(); a connection alive at entry is kept and _connect() is
\* not called
C16_RefreshBounded ==
    [][RefreshCall
       => /\ iterations' <= retry_count
          /\ connects' <= iterations'
          /\ is_alive(connection, reachable) => (connects' = 0 /\ connection' = connection) ]_vars

\* a refresh() that used both passes of a budget of two, and one that found
\* the connection alive
C16_Witness ==
    /\ result.op = "refresh"
    /\ \/ iterations = 2 /\ retry_count = 2 /\ connects = 1
       \/ iterations = 1 /\ connects = 0 /\ result.outcome = "ok"

\* the members of the index of m that have no schema entry
Dangling(m) == {id \in Members(models, ModelsKey(m)) : SchemaKey(id) \notin DOMAIN schema}

\* C13: get_all(T) over an index whose members have no schema entry raises an
\* error, and not the one get raises for an id that was never set
C13_IntegrityFaultDistinct ==
    [][\A m \in StoreClasses :
          (/\ StoreGetAll(m)
           /\ result'.outcome \notin Connectivity
           /\ Dangling(m) # {}
           /\ Dangling(m) = Members(models, ModelsKey(m)))
          => /\ result'.outcome \notin {"ok", "NotFoundError"}
             /\ \A id \in ResourceIds :
                    SchemaKey(id) \notin DOMAIN schema
                    => result'.outcome \notin get_resource(ThisStore, m, id) ]_vars

\* C17: set writes the schema entry before it adds the id to the index, so
\* every member of an index has a schema entry
C17_SchemaBeforeIndex ==
    \A m \in StoreClasses : Dangling(m) = {}

\* C18: the writes of a set() call are in the store, for every reader to see,
\* while the call is still between two of its writes
C18_WritesVisibleMidway ==
    \A w \in Writers :
        /\ writers[w].pc \in {"hset", "fields"}
           => writers[w].resource_id \in Members(models, ModelsKey(writers[w].model_name))
        /\ writers[w].pc = "fields"
           => SchemaKey(writers[w].resource_id) \in DOMAIN schema

\* get_all has met an id that a set() call in progress added to the index and
\* whose schema entry is not written yet
C18_Witness ==
    /\ result.op = "get_all"
    /\ result.outcome = "AttributeError"
    /\ \E w \in Writers :
          /\ writers[w].pc = "hset"
          /\ writers[w].model_name = result.args.model_name
          /\ writers[w].resource_id \in Dangling(writers[w].model_name)

\* C19: after two sets of the same type and id whose dumps differ in their
\* fields, get returns the fields and values of the later dump and nothing else
C19_LaterDumpOnly ==
    [][\A id \in ResourceIds, m \in StoreClasses :
          (/\ StoreGet(id, m)
           /\ result'.outcome \notin Connectivity
           /\ Live(m, id)
           /\ DOMAIN persisted[<<m, id>>].previous # DOMAIN persisted[<<m, id>>].dump)
          => /\ result'.outcome = "ok"
             /\ result'.value = persisted[<<m, id>>].dump ]_vars

\* C20: a commit() that returns leaves _changes empty and _data holding every
\* value that was pending, its other entries as they were; a commit() right
\* after it changes neither and leaves the same dump
C20_CommitMergesPending ==
    [][(Commit /\ result'.outcome = "ok")
       => /\ changes' = EmptyDict
          /\ data' = DictUpdate(data, changes)
          /\ (result.op = "commit" /\ result.outcome = "ok")
             => /\ data' = data
                /\ changes' = changes
                /\ Dump(data', cls') = Dump(data, cls) ]_vars

\* a Plain record whose name was cleared by update() and then committed
C20_Witness ==
    /\ cls = "Plain"
    /\ result.op = "commit"
    /\ result.outcome = "ok"
    /\ changes = EmptyDict
    /\ Get(data, "name") = None
    /\ "name" \in DOMAIN data

\* C21: after every call each key of _changes has the same value in _data, a
\* successful field write is read back at once, and so is every value handed
\* to update() for a field of the record
C21_ReadYourWrites ==
    [][/\ \A k \in DOMAIN changes' : k \in DOMAIN data' /\ data'[k] = changes'[k]
       /\ (result'.op = "__set__" /\ result'.outcome = "ok")
          => DescriptorGet(ThisRec', FieldOf(cls, result'.args.name)) = result'.args.value
       /\ result'.op = "update"
          => \A name \in DOMAIN result'.args.fields \cap FieldNames(cls) :
                DescriptorGet(ThisRec', FieldOf(cls, name)) = result'.args.fields[name] ]_vars

\* a written value that is pending and read back before any commit
C21_Witness ==
    /\ result.op = "__set__"
    /\ result.outcome = "ok"
    /\ cls = "Plain"
    /\ result.args = [name |-> "count", value |-> "#1"]
    /\ Get(changes, "count") = "#1"
    /\ DescriptorGet(ThisRec, FieldOf(cls, "count")) = "#1"

\* the fields of class c that are read-only
ReadOnlyFields(c) == {i \in DOMAIN ClassFields(c) : ClassFields(c)[i].is_read_only}

\* C22: a constructed record stays provisioned, and no field write, update()
\* or commit() gives a read-only field another current value or another
\* pending value
C22_ReadOnlyUnchanged ==
    [][(provision_done /\ result'.op \in {"__set__", "update", "commit"})
       => /\ provision_done'
          /\ \A i \in ReadOnlyFields(cls) :
                LET key == ClassFields(cls)[i].key IN
                /\ Get(data', key) = Get(data, key)
                /\ key \in DOMAIN changes'
                   => (key \in DOMAIN changes /\ changes'[key] = changes[key]) ]_vars

\* C26: every field of a record whose current value is present holds a value
\* of the type the field declares, and so does every entry of dump()
C26_DeclaredTypes ==
    \A i \in DOMAIN ClassFields(cls) :
        LET field == ClassFields(cls)[i] IN
        /\ Get(data, field.key) # None => IsInstance(Get(data, field.key), field.field_type)
        /\ (field.key \in DOMAIN Dump(data, cls) /\ Dump(data, cls)[field.key] # None)
           => IsInstance(Dump(data, cls)[field.key], field.field_type)

\* C23: every member of an index is a non-empty id, and every record that was
\* set carries the id it was set under, which is not empty
C23_ResourceIdNonEmpty ==
    /\ \A m \in StoreClasses : \A id \in Members(models, ModelsKey(m)) : id \notin {None, ""}
    /\ \A k \in DOMAIN persisted :
          /\ k[2] \notin {None, ""}
          /\ Get(persisted[k].dump, "resource_id") = k[2]

\* the registered fields of m that declare a default
Defaulted(m) == {name \in DOMAIN m.fields : m.fields[name].default # None}

\* C24: get_defaults() has an entry for exactly the keys of the registered
\* fields that declare a default, each with the default of the field
\* registered under that key
C24_DefaultsMatchFields ==
    [][GetDefaults
       => /\ DOMAIN defaults' = {options.fields[name].key : name \in Defaulted(options)}
          /\ \A name \in Defaulted(options) :
                LET field == options.fields[name] IN
                defaults'[field.key] = IF Callable(field.default) THEN Uuid(uuid_count')
                                       ELSE field.default ]_vars

\* what get and get_all of type m read from store st: the index of m and, for
\* every id, the field list _get_resource is handed and what it does with it
Readable(st, m) ==
    [index |-> Members(st.models, ModelsKey(m)),
     keys |-> [id \in ResourceIds |-> Get(st.schema, SchemaKey(id))],
     read |-> [id \in ResourceIds |-> get_resource(st, m, id)]]

\* C25: a set or a remove for a record type leaves what get and get_all read
\* for every other record type as it was
C25_TypesIsolated ==
    [][(StoreSet \/ \E id \in ResourceIds, n \in StoreClasses : StoreRemove(id, n))
       => \A m \in StoreClasses \ {result'.args.model_name} :
             Readable(ThisStore', m) = Readable(ThisStore, m) ]_vars

====
